---------------------------- MODULE Spec2Model ----------------------------
(***************************************************************************)
(* Perceptron branch predictor (branch_predictor.c): the hashed perceptron *)
(* table, the prediction and training functions, the two history shift     *)
(* registers, the statistics and the trace driver's loop.                  *)
(*                                                                         *)
(* 32-bit unsigned values (addresses, tags, the hash) are records          *)
(* [hi, lo] of two 16-bit halves, so that the FNV multiplication modulo    *)
(* 2^32 is computed exactly without leaving the model checker's integers.  *)
(***************************************************************************)
EXTENDS Integers, Sequences, FiniteSets, TLC

\* ------------------------------------------------------------ configuration

\* #define NUM_PERCEPTRONS 1024
NUM_PERCEPTRONS == 1024
\* #define HISTORY_LENGTH 64 in the source; the model runs the same code on
\* shorter history registers (a bound of the model).
HISTORY_LENGTH == 2
\* #define THETA (int)(2.14 * HISTORY_LENGTH + 20.58)
THETA == ((214 * HISTORY_LENGTH) + 2058) \div 100
MAX_WEIGHT == 127
MIN_WEIGHT == -128
PATH_HISTORY_MASK == 15
FNV_PRIME == 16777619
\* #define FNV_OFFSET_BASIS 2166136261 (0x811C9DC5)
FNV_OFFSET_BASIS == [hi |-> 33052, lo |-> 40389]

\* Bounds of the model: events read by the trace driver, direct calls made
\* in the specification of the public functions.
MaxEvents == 3
MaxCalls == 2

\* ------------------------------------------------------- 32-bit arithmetic

Half == 2 ^ 16

RECURSIVE BitXor(_, _, _)
BitXor(a, b, n) ==
  IF n = 0 THEN 0
  ELSE (((a % 2) + (b % 2)) % 2) + 2 * BitXor(a \div 2, b \div 2, n - 1)

RECURSIVE BitAnd(_, _, _)
BitAnd(a, b, n) ==
  IF n = 0 THEN 0
  ELSE ((a % 2) * (b % 2)) + 2 * BitAnd(a \div 2, b \div 2, n - 1)

Word(h, l) == [hi |-> h, lo |-> l]

\* a ^ b on uint32_t
WordXor(a, b) == Word(BitXor(a.hi, b.hi, 16), BitXor(a.lo, b.lo, 16))

\* a >> 2 on uint32_t
WordShr2(a) == Word(a.hi \div 4, (a.lo \div 4) + ((a.hi % 4) * 16384))

\* a >> 17 on uint32_t
WordShr17(a) == Word(0, a.hi \div 2)

\* a * k on uint32_t (modulo 2^32), k a 32-bit constant
WordMul(a, k) ==
  LET khi == k \div Half
      klo == k % Half
      low == a.lo * klo
  IN  Word(((a.hi * klo) + (a.lo * khi) + (low \div Half)) % Half, low % Half)

\* a & m on uint32_t, for a mask m below 2^16; the result fits an int
WordMask(a, m) == BitAnd(a.lo, m, 16)

\* the value stored in an int8_t when an int is assigned to it
ToInt8(v) == ((v + 128) % 256) - 128

\* abs() of <stdlib.h>
abs(v) == IF v < 0 THEN -v ELSE v

\* ------------------------------------------------------------- rationals
\* The double avg_confidence and confidence are modelled as exact fractions
\* in lowest terms (rounding of the floating-point operations is left out).

RECURSIVE Gcd(_, _)
Gcd(a, b) == IF b = 0 THEN a ELSE Gcd(b, a % b)

Rat(n, d) == LET g == Gcd(n, d) IN [num |-> n \div g, den |-> d \div g]

RatZero == [num |-> 0, den |-> 1]

\* ------------------------------------------------------------------ hash

\* compute_perceptron_index masking with the table size instead of size - 1
compute_perceptron_index_size_mask(address) ==
  LET h1 == WordXor(FNV_OFFSET_BASIS, WordShr2(address))
      h2 == WordMul(h1, FNV_PRIME)
      h3 == WordXor(h2, WordShr17(h2))
  IN  WordMask(h3, NUM_PERCEPTRONS)

\* static uint32_t compute_perceptron_index(uint32_t address)
compute_perceptron_index(address) ==
  LET h1 == WordXor(FNV_OFFSET_BASIS, WordShr2(address))
      h2 == WordMul(h1, FNV_PRIME)
      h3 == WordXor(h2, WordShr17(h2))
  IN  WordMask(h3, NUM_PERCEPTRONS - 1)

\* The branch addresses of the modelled traces: 0x0 (its tag equals the tag
\* calloc leaves in every slot), 0x1000, 0x1003 (unaligned, the same
\* address >> 2 as 0x1000), 0x39B (unaligned; hashes to the slot of 0x1000
\* with another tag) and 0xFFFFFFFF.
Addresses ==
  { Word(0, 0), Word(0, 4096), Word(0, 4099), Word(0, 923),
    Word(65535, 65535) }

\* The slots of the table that these addresses hash to.  No other slot is
\* ever read or written, so the table of the model is the calloc'ed table
\* restricted to them.
Slots == { compute_perceptron_index(a) : a \in Addresses }

\* The second field of a trace record as fscanf's %d may read it.
RawOutcomes == { -1, 0, 1, 2 }

\* ----------------------------------------------------------------- state

VARIABLES
  perceptron_table,  \* slot index -> perceptron_t
  global_history,    \* int[HISTORY_LENGTH], newest at 0
  path_history,      \* int[HISTORY_LENGTH], newest at 0
  statistics,        \* statistics_t
  current_time,      \* the logical clock
  pc,                \* the statement of process_trace_file's loop to run next
  branch_address,    \* process_trace_file: branch_address
  actual_outcome,    \* process_trace_file: actual_outcome
  y,                 \* the value make_prediction returned last
  confidence,        \* the value make_prediction stored in *confidence last
  index,             \* make_prediction, train_perceptron: index (last call)
  call,              \* the call made by the last step, with its arguments
  history_log,       \* the update_history calls so far, newest first
  events,            \* trace records read (or direct calls made) so far
  observed           \* what the calls so far returned, summed up

vars == << perceptron_table, global_history, path_history, statistics,
           current_time, pc, branch_address, actual_outcome, y, confidence,
           index, call, history_log, events, observed >>

predictor == << perceptron_table, global_history, path_history, statistics,
                current_time >>

\* calloc(NUM_PERCEPTRONS, sizeof(perceptron_t)): one zeroed perceptron_t
ZeroPerceptron ==
  [ weights          |-> [j \in 0..HISTORY_LENGTH |-> 0],
    tag              |-> Word(0, 0),
    last_update_time |-> 0,
    times_accessed   |-> 0 ]

\* memset(&statistics, 0, sizeof(statistics))
ZeroStatistics ==
  [ total_predictions   |-> 0,
    correct_predictions |-> 0,
    mispredictions      |-> 0,
    btb_misses          |-> 0,
    training_events     |-> 0,
    strong_predictions  |-> 0,
    weak_predictions    |-> 0,
    avg_confidence      |-> RatZero ]

NoCall == [op |-> "none", address |-> Word(0, 0), outcome |-> 0, y |-> 0]

Called(op, address, outcome, yin) ==
  [op |-> op, address |-> address, outcome |-> outcome, y |-> yin]

\* Nothing returned yet: no tag hit, no event predicted correctly.
NoneObserved ==
  [ hits                   |-> 0,   \* make_prediction calls that hit the tag
    hit_abs_y              |-> 0,   \* the sum of abs(y) over those calls
    low_confidence_correct |-> 0 ]  \* events predicted correctly with
                                    \* abs(y) <= THETA

\* initialize_predictor() followed by the entry of process_trace_file
Init ==
  /\ perceptron_table = [i \in Slots |-> ZeroPerceptron]
  /\ global_history = [i \in 0..(HISTORY_LENGTH - 1) |-> 0]
  /\ path_history = [i \in 0..(HISTORY_LENGTH - 1) |-> 0]
  /\ statistics = ZeroStatistics
  /\ current_time = 0
  /\ pc = "fscanf"
  /\ branch_address = Word(0, 0)
  /\ actual_outcome = 0
  /\ y = 0
  /\ confidence = RatZero
  /\ index = 0
  /\ call = NoCall
  /\ history_log = << >>
  /\ events = 0
  /\ observed = NoneObserved

\* ------------------------------------------------------------- prediction

\* global_history[j - 1] + (path_history[j - 1] & 1)
history_term(j) == global_history[j - 1] + BitAnd(path_history[j - 1], 1, 4)

RECURSIVE weighted_sum(_, _)
weighted_sum(weights, j) ==
  IF j = 0 THEN weights[0]
  ELSE weighted_sum(weights, j - 1) + (weights[j] * history_term(j))

RECURSIVE weighted_sum_no_path(_, _)
weighted_sum_no_path(weights, j) ==
  IF j = 0 THEN weights[0]
  ELSE weighted_sum_no_path(weights, j - 1)
       + (weights[j] * global_history[j - 1])

\* compute_perceptron_output without the path-history bit of each term
compute_perceptron_output_no_path(perceptron) ==
  weighted_sum_no_path(perceptron.weights, HISTORY_LENGTH)

\* static int compute_perceptron_output(perceptron_t *perceptron)
compute_perceptron_output(perceptron) ==
  weighted_sum(perceptron.weights, HISTORY_LENGTH)

\* update_confidence_statistics taking a confidence of exactly 1.0 for weak
update_confidence_statistics_strict(c) ==
  LET counted == IF c.num > c.den
                 THEN [statistics EXCEPT !.strong_predictions = @ + 1]
                 ELSE [statistics EXCEPT !.weak_predictions = @ + 1]
      avg == statistics.avg_confidence
      n == statistics.total_predictions
  IN  [counted EXCEPT !.avg_confidence =
         Rat((avg.num * n * c.den) + (c.num * avg.den),
             avg.den * c.den * (n + 1))]

\* static void update_confidence_statistics(double confidence): the new
\* value of statistics
update_confidence_statistics(c) ==
  LET counted == IF c.num >= c.den
                 THEN [statistics EXCEPT !.strong_predictions = @ + 1]
                 ELSE [statistics EXCEPT !.weak_predictions = @ + 1]
      avg == statistics.avg_confidence
      n == statistics.total_predictions
  IN  [counted EXCEPT !.avg_confidence =
         Rat((avg.num * n * c.den) + (c.num * avg.den),
             avg.den * c.den * (n + 1))]

\* the tag comparison also taking a slot never accessed for a new branch
tag_miss_unused(address) ==
  LET perceptron == perceptron_table[compute_perceptron_index(address)]
  IN  perceptron.tag # WordShr2(address) \/ perceptron.times_accessed = 0

\* the tag comparison of make_prediction
tag_miss(address) ==
  perceptron_table[compute_perceptron_index(address)].tag # WordShr2(address)

\* the new-branch block also clearing the weights the slot holds
new_branch_cleared(perceptron, address) ==
  [perceptron EXCEPT !.tag = WordShr2(address), !.times_accessed = 0,
                     !.weights = [j \in 0..HISTORY_LENGTH |-> 0]]

\* the new-branch block storing the whole address as the tag
new_branch_full_tag(perceptron, address) ==
  [perceptron EXCEPT !.tag = address, !.times_accessed = 0]

\* the slot as the "handle new branch" block of make_prediction leaves it
new_branch(perceptron, address) ==
  [perceptron EXCEPT !.tag = WordShr2(address), !.times_accessed = 0]

\* int make_prediction(uint32_t address, double *confidence)
make_prediction(address) ==
  LET i == compute_perceptron_index(address)
      perceptron == perceptron_table[i]
  IN  /\ index' = i
      /\ IF tag_miss(address)
         THEN /\ statistics' = [statistics EXCEPT !.btb_misses = @ + 1]
              /\ perceptron_table' =
                   [perceptron_table EXCEPT
                      ![i] = new_branch(perceptron, address)]
              /\ confidence' = RatZero
              /\ y' = 0
              /\ UNCHANGED current_time
         ELSE LET out == compute_perceptron_output(perceptron)
                  conf == Rat(abs(out), THETA)
              IN  /\ perceptron_table' =
                       [perceptron_table EXCEPT ![i].times_accessed = @ + 1]
                  /\ current_time' = current_time + 1
                  /\ confidence' = conf
                  /\ statistics' = update_confidence_statistics(conf)
                  /\ y' = out

\* ---------------------------------------------------------------- history

\* update_history moving one element too few: the oldest entry is never
\* overwritten
update_history_short_move(address, outcome) ==
  /\ history_log' = << [address |-> address, outcome |-> outcome] >>
                       \o history_log
  /\ global_history' =
       [i \in 0..(HISTORY_LENGTH - 1) |->
          IF i = 0 THEN outcome
          ELSE IF i = HISTORY_LENGTH - 1 THEN global_history[i]
          ELSE global_history[i - 1]]
  /\ path_history' =
       [i \in 0..(HISTORY_LENGTH - 1) |->
          IF i = 0 THEN WordMask(address, PATH_HISTORY_MASK)
          ELSE IF i = HISTORY_LENGTH - 1 THEN path_history[i]
          ELSE path_history[i - 1]]

\* update_history storing the address unmasked
update_history_unmasked(address, outcome) ==
  /\ history_log' = << [address |-> address, outcome |-> outcome] >>
                       \o history_log
  /\ global_history' =
       [i \in 0..(HISTORY_LENGTH - 1) |->
          IF i = 0 THEN outcome ELSE global_history[i - 1]]
  /\ path_history' =
       [i \in 0..(HISTORY_LENGTH - 1) |->
          IF i = 0 THEN address.lo
          ELSE path_history[i - 1]]

\* void update_history(uint32_t address, int actual_outcome)
update_history(address, outcome) ==
  /\ history_log' = << [address |-> address, outcome |-> outcome] >>
                       \o history_log
  /\ global_history' =
       [i \in 0..(HISTORY_LENGTH - 1) |->
          IF i = 0 THEN outcome ELSE global_history[i - 1]]
  /\ path_history' =
       [i \in 0..(HISTORY_LENGTH - 1) |->
          IF i = 0 THEN WordMask(address, PATH_HISTORY_MASK)
          ELSE path_history[i - 1]]

\* --------------------------------------------------------------- training

\* update_perceptron_weights without its saturation: the int8_t store wraps
saturate_omitted(new_weight) == new_weight

\* the saturation of update_perceptron_weights
saturate(new_weight) ==
  IF new_weight > MAX_WEIGHT THEN MAX_WEIGHT
  ELSE IF new_weight < MIN_WEIGHT THEN MIN_WEIGHT
  ELSE new_weight

\* history_val without the path-history bit
history_val_global_only(j) == IF j = 0 THEN 1 ELSE global_history[j - 1]

\* history_val of update_perceptron_weights
history_val(j) == IF j = 0 THEN 1 ELSE history_term(j)

\* static void update_perceptron_weights(perceptron_t *perceptron,
\*                                       int actual_outcome): the new slot
update_perceptron_weights(perceptron, outcome) ==
  [perceptron EXCEPT
     !.weights = [j \in 0..HISTORY_LENGTH |->
                    ToInt8(saturate(perceptron.weights[j]
                                    + (outcome * history_val(j))))],
     !.last_update_time = current_time]

\* the condition without its low-confidence half
train_gate_wrong_only(outcome, yin) == (IF yin >= 0 THEN 1 ELSE -1) # outcome

\* the condition of train_perceptron's if
train_gate(outcome, yin) ==
  (IF yin >= 0 THEN 1 ELSE -1) # outcome \/ abs(yin) <= THETA

\* void train_perceptron(uint32_t address, int actual_outcome, int y)
train_perceptron(address, outcome, yin) ==
  LET i == compute_perceptron_index(address)
  IN  /\ index' = i
      /\ IF train_gate(outcome, yin)
         THEN /\ statistics' = [statistics EXCEPT !.training_events = @ + 1]
              /\ perceptron_table' =
                   [perceptron_table EXCEPT
                      ![i] = update_perceptron_weights(@, outcome)]
         ELSE UNCHANGED << statistics, perceptron_table >>

\* ----------------------------------------------------------- trace driver
\* One iteration of the while loop of process_trace_file, statement by
\* statement.  The program is single-threaded: pc only orders the statements.

\* while (fscanf(file, "%x %d", &branch_address, &actual_outcome) == 2)
\*   actual_outcome = actual_outcome == 1 ? 1 : -1;
ReadEvent(address, raw) ==
  /\ pc = "fscanf"
  /\ events < MaxEvents
  /\ events' = events + 1
  /\ branch_address' = address
  /\ actual_outcome' = (IF raw = 1 THEN 1 ELSE -1)
  /\ call' = Called("fscanf", address, raw, 0)
  /\ pc' = "make_prediction"
  /\ UNCHANGED << predictor, y, confidence, index, history_log, observed >>

\* what a make_prediction(address) call adds to observed: the call hit the
\* tag when the comparison of line 184 fails, and then returned y'
observe_prediction(address) ==
  IF tag_miss(address) THEN observed
  ELSE [observed EXCEPT !.hits = @ + 1, !.hit_abs_y = @ + abs(y')]

\* int y = make_prediction(branch_address, &confidence);
Predict ==
  /\ pc = "make_prediction"
  /\ make_prediction(branch_address)
  /\ observed' = observe_prediction(branch_address)
  /\ call' = Called("make_prediction", branch_address, 0, 0)
  /\ pc' = "tally"
  /\ UNCHANGED << global_history, path_history, branch_address,
                  actual_outcome, history_log, events >>

\* int prediction = y >= 0 ? 1 : -1;
prediction == IF y >= 0 THEN 1 ELSE -1

\* the tally counting a misprediction also as a prediction that was correct
tally_both(predicted, actual) ==
  IF predicted = actual
  THEN [statistics EXCEPT !.total_predictions = @ + 1,
                          !.correct_predictions = @ + 1]
  ELSE [statistics EXCEPT !.total_predictions = @ + 1,
                          !.correct_predictions = @ + 1,
                          !.mispredictions = @ + 1]

\* the tally without the mispredictions++ of the else branch
tally_miss_uncounted(predicted, actual) ==
  IF predicted = actual
  THEN [statistics EXCEPT !.total_predictions = @ + 1,
                          !.correct_predictions = @ + 1]
  ELSE [statistics EXCEPT !.total_predictions = @ + 1]

\* statistics.total_predictions++;
\* if (prediction == actual_outcome) statistics.correct_predictions++;
\* else statistics.mispredictions++;           (the new value of statistics)
tally(predicted, actual) ==
  IF predicted = actual
  THEN [statistics EXCEPT !.total_predictions = @ + 1,
                          !.correct_predictions = @ + 1]
  ELSE [statistics EXCEPT !.total_predictions = @ + 1,
                          !.mispredictions = @ + 1]

\* what the event adds to observed once prediction is compared
observe_tally ==
  IF prediction = actual_outcome /\ abs(y) <= THETA
  THEN [observed EXCEPT !.low_confidence_correct = @ + 1]
  ELSE observed

\* the loop with update_history inside the else branch: a correct
\* prediction goes straight to the next record
Tally_history_in_else ==
  /\ pc = "tally"
  /\ statistics' = tally(prediction, actual_outcome)
  /\ pc' = (IF prediction = actual_outcome THEN "fscanf"
            ELSE "train_perceptron")
  /\ call' = Called("tally", branch_address, actual_outcome, y)
  /\ observed' = observe_tally
  /\ UNCHANGED << perceptron_table, global_history, path_history,
                  current_time, branch_address, actual_outcome, y,
                  confidence, index, history_log, events >>

\* the loop calling train_perceptron for every event, leaving the decision
\* to train_perceptron's own condition
Tally_train_every_event ==
  /\ pc = "tally"
  /\ statistics' = tally(prediction, actual_outcome)
  /\ pc' = "train_perceptron"
  /\ call' = Called("tally", branch_address, actual_outcome, y)
  /\ observed' = observe_tally
  /\ UNCHANGED << perceptron_table, global_history, path_history,
                  current_time, branch_address, actual_outcome, y,
                  confidence, index, history_log, events >>

\* the if of the loop: only its else branch goes on to train_perceptron
Tally ==
  /\ pc = "tally"
  /\ statistics' = tally(prediction, actual_outcome)
  /\ pc' = (IF prediction = actual_outcome THEN "update_history"
            ELSE "train_perceptron")
  /\ call' = Called("tally", branch_address, actual_outcome, y)
  /\ observed' = observe_tally
  /\ UNCHANGED << perceptron_table, global_history, path_history,
                  current_time, branch_address, actual_outcome, y,
                  confidence, index, history_log, events >>

\* train_perceptron(branch_address, actual_outcome, y);
Train ==
  /\ pc = "train_perceptron"
  /\ train_perceptron(branch_address, actual_outcome, y)
  /\ call' = Called("train_perceptron", branch_address, actual_outcome, y)
  /\ pc' = "update_history"
  /\ UNCHANGED << global_history, path_history, current_time,
                  branch_address, actual_outcome, y, confidence,
                  history_log, events, observed >>

\* update_history(branch_address, actual_outcome);
History ==
  /\ pc = "update_history"
  /\ update_history(branch_address, actual_outcome)
  /\ call' = Called("update_history", branch_address, actual_outcome, 0)
  /\ pc' = "fscanf"
  /\ UNCHANGED << perceptron_table, statistics, current_time,
                  branch_address, actual_outcome, y, confidence, index,
                  events, observed >>

process_trace_file ==
  \/ \E address \in Addresses, raw \in RawOutcomes : ReadEvent(address, raw)
  \/ Predict
  \/ Tally
  \/ Train
  \/ History

Next == process_trace_file

Spec == Init /\ [][Next]_vars

\* ------------------------------------------------------- a longer trace
\* No three records take a weighted sum to THETA.  A third specification
\* runs the same loop on the records that follow a prefix of
\* 2 * WarmPairs records alternating "1000 0" and "39b 0".  The two
\* addresses share a slot with different tags, so every record of the
\* prefix is a tag miss, is predicted taken, is a misprediction and trains
\* the slot with outcome -1 on the registers the records before it left.
WarmPairs == 12

WarmAddresses == << Word(0, 4096), Word(0, 923) >>

\* the record k of the prefix (k = 1 is the first one read)
WarmRecord(k) ==
  [address |-> WarmAddresses[2 - (k % 2)], outcome |-> -1]

\* The bias moved by -1 in each record.  Weight j >= 1 of record k moved by
\* -1 * (global_history[j - 1] + (path_history[j - 1] & 1)) for record
\* k - j: by 1 after a "1000 0" (-1 + 0), by 0 after a "39b 0" (-1 + 1),
\* and by 0 while the register was still as calloc left it.
WarmWeights ==
  [j \in 0..HISTORY_LENGTH |->
     IF j = 0 THEN -(2 * WarmPairs) ELSE WarmPairs - (j \div 2)]

\* The fields no record of the prefix has moved from the zero of
\* initialize_predictor: every make_prediction took the new-branch path
\* (times_accessed = 0, no current_time++, no update_confidence_statistics)
\* and every update stored last_update_time = current_time = 0.
NoTelemetry ==
  [ times_accessed     |-> 0,
    last_update_time   |-> 0,
    current_time       |-> 0,
    strong_predictions |-> 0,
    weak_predictions   |-> 0,
    avg_confidence     |-> RatZero ]

\* the predictor after the prefix, with the fields of NoTelemetry as t
\* gives them
Warm(t) ==
  /\ perceptron_table =
       [i \in Slots |->
          [ (IF i = compute_perceptron_index(WarmAddresses[2])
             THEN [ZeroPerceptron EXCEPT !.weights = WarmWeights,
                                         !.tag = WordShr2(WarmAddresses[2])]
             ELSE ZeroPerceptron)
            EXCEPT !.times_accessed = t.times_accessed,
                   !.last_update_time = t.last_update_time ]]
  /\ global_history = [i \in 0..(HISTORY_LENGTH - 1) |-> -1]
  /\ path_history =
       [i \in 0..(HISTORY_LENGTH - 1) |->
          WordMask(WarmRecord((2 * WarmPairs) - i).address,
                   PATH_HISTORY_MASK)]
  /\ statistics =
       [ZeroStatistics EXCEPT !.total_predictions = 2 * WarmPairs,
                              !.mispredictions = 2 * WarmPairs,
                              !.btb_misses = 2 * WarmPairs,
                              !.training_events = 2 * WarmPairs,
                              !.strong_predictions = t.strong_predictions,
                              !.weak_predictions = t.weak_predictions,
                              !.avg_confidence = t.avg_confidence]
  /\ current_time = t.current_time
  /\ pc = "fscanf"
  /\ branch_address = WarmAddresses[2]
  /\ actual_outcome = -1
  /\ y = 0
  /\ confidence = RatZero
  /\ index = compute_perceptron_index(WarmAddresses[2])
  /\ call = Called("update_history", WarmAddresses[2], -1, 0)
  /\ history_log = [k \in 1..(2 * WarmPairs) |->
                      WarmRecord(((2 * WarmPairs) + 1) - k)]
  /\ events = 0
  /\ observed = NoneObserved

InitWarm == Warm(NoTelemetry)

SpecWarm == InitWarm /\ [][Next]_vars

\* ------------------------------------------- the bookkeeping-only fields
\* times_accessed, last_update_time, current_time, strong_predictions,
\* weak_predictions and avg_confidence are written by make_prediction and
\* update_perceptron_weights.  A fourth specification runs the loop from
\* predictors that agree with InitWarm on every weight, tag, history
\* register and remaining counter and differ in those six fields.
Telemetries ==
  { NoTelemetry,
    [ times_accessed     |-> 7,
      last_update_time   |-> 5,
      current_time       |-> 9,
      strong_predictions |-> 3,
      weak_predictions   |-> 2,
      avg_confidence     |-> Rat(3, 2) ] }

InitTelemetry == \E t \in Telemetries : Warm(t)

SpecTelemetry == InitTelemetry /\ [][Next]_vars
\* ------------------------------------------------------ the public functions
\* make_prediction, train_perceptron and update_history are external
\* functions: a second specification calls them directly, in any order and
\* with any arguments, on a predictor that earlier calls have driven to
\* weights at a bound or at zero.

\* Addresses of the direct calls: 0x1000 and 0x39B share a slot.
CallAddresses == { Word(0, 4096), Word(0, 923) }

\* Values of train_perceptron's y around the threshold.
TrainYs == { -(THETA + 1), -THETA, 0, THETA, THETA + 1 }

\* History registers as update_history calls leave them: untouched since
\* calloc (then no weight but the bias can have moved: only zero weights
\* start there), or filled with one repeated (outcome, address & 0xF) pair.
CallHistories == { << 0, 0 >>, << 1, 15 >>, << -1, 0 >> }

\* The predictor after HISTORY_LENGTH calls update_history(0xFFFFFFFF, 1),
\* then abs(v) calls train_perceptron(a, v < 0 ? -1 : 1, 0) for an address a
\* of every slot (every history term is 2, so every weight of the slot moves
\* by at least 1 per call and saturates at v), then update_history calls that
\* leave the registers filled with the pair h.
InitCalls ==
  \E v \in { MIN_WEIGHT, 0, MAX_WEIGHT }, h \in CallHistories :
    /\ (h = << 0, 0 >>) => (v = 0)
    /\ perceptron_table =
         [i \in Slots |->
            [ZeroPerceptron EXCEPT !.weights = [j \in 0..HISTORY_LENGTH |-> v]]]
    /\ global_history = [i \in 0..(HISTORY_LENGTH - 1) |-> h[1]]
    /\ path_history = [i \in 0..(HISTORY_LENGTH - 1) |-> h[2]]
    /\ statistics =
         [ZeroStatistics EXCEPT !.training_events = abs(v) * Cardinality(Slots)]
    /\ current_time = 0
    /\ pc = "call"
    /\ branch_address = Word(0, 0)
    /\ actual_outcome = 0
    /\ y = 0
    /\ confidence = RatZero
    /\ index = 0
    /\ call = NoCall
    /\ history_log = << >>
    /\ events = 0
    /\ observed = NoneObserved

CallPredict(address) ==
  /\ pc = "call"
  /\ events < MaxCalls
  /\ events' = events + 1
  /\ make_prediction(address)
  /\ observed' = observe_prediction(address)
  /\ call' = Called("make_prediction", address, 0, 0)
  /\ UNCHANGED << global_history, path_history, pc, branch_address,
                  actual_outcome, history_log >>

CallTrain(address, outcome, yin) ==
  /\ pc = "call"
  /\ events < MaxCalls
  /\ events' = events + 1
  /\ train_perceptron(address, outcome, yin)
  /\ call' = Called("train_perceptron", address, outcome, yin)
  /\ UNCHANGED << global_history, path_history, current_time, pc,
                  branch_address, actual_outcome, y, confidence,
                  history_log, observed >>

CallHistory(address, outcome) ==
  /\ pc = "call"
  /\ events < MaxCalls
  /\ events' = events + 1
  /\ update_history(address, outcome)
  /\ call' = Called("update_history", address, outcome, 0)
  /\ UNCHANGED << perceptron_table, statistics, current_time, pc,
                  branch_address, actual_outcome, y, confidence, index,
                  observed >>

NextCalls ==
  \/ \E address \in CallAddresses : CallPredict(address)
  \/ \E address \in CallAddresses, outcome \in { 1, -1 }, yin \in TrainYs :
       CallTrain(address, outcome, yin)
  \/ \E address \in CallAddresses, outcome \in { 1, -1 } :
       CallHistory(address, outcome)

SpecCalls == InitCalls /\ [][NextCalls]_vars

\* ================================================================= claims

\* the history term of weight j as the specification states it
SpecTerm(j) ==
  IF j = 0 THEN 1 ELSE global_history[j - 1] + (path_history[j - 1] % 2)

\* whether the last call was a make_prediction that took the new-branch path
\* (a tag hit leaves times_accessed >= 1)
LastWasMiss ==
  /\ call.op = "make_prediction"
  /\ perceptron_table[index].times_accessed = 0

\* whether the trace read before the current record holds the address
NeverSeen(address) ==
  \A k \in 1..Len(history_log) : history_log[k].address # address

\* ----------------------------------------------------------------- C1

WeightsInRange ==
  \A i \in DOMAIN perceptron_table, j \in 0..HISTORY_LENGTH :
    perceptron_table[i].weights[j] \in MIN_WEIGHT..MAX_WEIGHT

PushedStays ==
  (statistics'.training_events # statistics.training_events) =>
    \A j \in 0..HISTORY_LENGTH :
      LET pushed == perceptron_table[index'].weights[j]
                    + (call'.outcome * SpecTerm(j))
          after == perceptron_table'[index'].weights[j]
      IN  /\ (pushed >= MAX_WEIGHT) => (after = MAX_WEIGHT)
          /\ (pushed <= MIN_WEIGHT) => (after = MIN_WEIGHT)

\* C1: in every state reached by any sequence of make_prediction,
\* train_perceptron (any y, outcome +1 or -1) and update_history calls, every
\* weight of every slot is in [-128, 127], and a weight a training step
\* pushes to or past a bound ends at that bound (it never wraps).
C1_WeightsSaturate == []WeightsInRange /\ [][PushedStays]_vars

\* C1 witness: the first call trained with outcome +1 and the bias is at
\* MAX_WEIGHT: it was at MAX_WEIGHT already and was pushed further.
C1_Witness ==
  /\ events = 1
  /\ call.op = "train_perceptron"
  /\ call.outcome = 1
  /\ statistics.training_events = (MAX_WEIGHT * Cardinality(Slots)) + 1
  /\ perceptron_table[index].weights[0] = MAX_WEIGHT

\* ----------------------------------------------------------------- C2

\* C2: a make_prediction for an address the trace has not held before, or
\* made while the slot's tag differs from address >> 2, yields the direction
\* not-taken with confidence 0.0 and adds exactly 1 to btb_misses.
C2_TagMissDefault ==
  [][ (/\ call'.op = "make_prediction"
       /\ (tag_miss(call'.address) \/ NeverSeen(call'.address)))
      => (/\ (IF y' >= 0 THEN 1 ELSE -1) = -1
          /\ confidence' = RatZero
          /\ statistics'.btb_misses = statistics.btb_misses + 1) ]_vars

\* ----------------------------------------------------------------- C3

\* C3: after the single event (0x1000, taken) on a fresh predictor,
\* btb_misses = 1, total_predictions = 1, mispredictions = 1,
\* correct_predictions = 0, and the event trained: training_events = 1 and
\* the bias of the slot moved toward taken.
C3_FirstEventScenario ==
  (/\ pc = "fscanf"
   /\ history_log = << [address |-> Word(0, 4096), outcome |-> 1] >>)
  => (/\ statistics.btb_misses = 1
      /\ statistics.total_predictions = 1
      /\ statistics.mispredictions = 1
      /\ statistics.correct_predictions = 0
      /\ statistics.training_events = 1
      /\ perceptron_table[compute_perceptron_index(Word(0, 4096))].weights[0]
           > 0)

\* ----------------------------------------------------------------- C4

TallyBalanced ==
  (pc = "fscanf") =>
    /\ statistics.correct_predictions + statistics.mispredictions
         = statistics.total_predictions
    /\ statistics.total_predictions = events

TallyOncePerEvent ==
  LET t == statistics.total_predictions
      c == statistics.correct_predictions
      m == statistics.mispredictions
      t2 == statistics'.total_predictions
      c2 == statistics'.correct_predictions
      m2 == statistics'.mispredictions
  IN  IF call'.op = "tally"
      THEN /\ t2 = t + 1
           /\ \/ (c2 = c + 1 /\ m2 = m)
              \/ (c2 = c /\ m2 = m + 1)
      ELSE t2 = t /\ c2 = c /\ m2 = m

\* C4: after every fully processed event correct_predictions +
\* mispredictions = total_predictions = the number of events; an event adds
\* exactly 1 to total_predictions and exactly 1 to exactly one of
\* correct_predictions and mispredictions.
C4_StatisticsConsistent == []TallyBalanced /\ [][TallyOncePerEvent]_vars

\* C4 witness: events of both kinds have been processed.
C4_Witness ==
  /\ pc = "fscanf"
  /\ statistics.correct_predictions >= 1
  /\ statistics.mispredictions >= 2

\* ----------------------------------------------------------------- C5

\* C5: when an event's predicted direction was correct and |y| <= THETA, the
\* event still trains: the loop reaches update_history having just run
\* train_perceptron (training_events incremented).
C5_TrainsWhenUnderConfident ==
  (/\ pc = "update_history"
   /\ prediction = actual_outcome
   /\ abs(y) <= THETA)
  => (call.op = "train_perceptron" /\ statistics.training_events >= 1)

\* ----------------------------------------------------------------- C6

GateDecides ==
  (call'.op = "train_perceptron") =>
    LET outcome == call'.outcome
        sign == IF call'.y >= 0 THEN 1 ELSE -1
    IN  IF sign # outcome \/ abs(call'.y) <= THETA
        THEN /\ statistics' =
                  [statistics EXCEPT !.training_events = @ + 1]
             /\ perceptron_table' =
                  [perceptron_table EXCEPT
                     ![index'] = update_perceptron_weights(@, outcome)]
             /\ UNCHANGED << global_history, path_history, current_time >>
        ELSE UNCHANGED << perceptron_table, global_history, path_history,
                          statistics, current_time >>

\* C6: train_perceptron(address, outcome, y) applies the weight update and
\* adds 1 to training_events exactly when sign(y) # outcome or
\* |y| <= THETA; otherwise the table, the histories and the statistics are
\* unchanged.
C6_TrainingGate == [][GateDecides]_vars

\* C6 witness: the second call, train_perceptron with the sign of y equal to
\* the outcome and |y| = THETA, has trained a slot no call had trained.
C6_Witness ==
  /\ events = 2
  /\ call.op = "train_perceptron"
  /\ call.outcome = -1
  /\ call.y = -THETA
  /\ statistics.training_events = 1
  /\ perceptron_table[index].weights[0] = -1

\* ----------------------------------------------------------------- C7

HistoryWindow ==
  /\ DOMAIN global_history = 0..(HISTORY_LENGTH - 1)
  /\ DOMAIN path_history = 0..(HISTORY_LENGTH - 1)
  /\ \A i \in 0..(HISTORY_LENGTH - 1) :
       (i < Len(history_log)) =>
         /\ global_history[i] = history_log[i + 1].outcome
         /\ path_history[i] = history_log[i + 1].address.lo % 16

HistoryShifts ==
  (call'.op = "update_history") =>
    /\ global_history'[0] = call'.outcome
    /\ path_history'[0] = call'.address.lo % 16
    /\ \A i \in 1..(HISTORY_LENGTH - 1) :
         /\ global_history'[i] = global_history[i - 1]
         /\ path_history'[i] = path_history[i - 1]

\* C7: both registers always hold HISTORY_LENGTH entries; update_history
\* puts outcome and address & 0xF at entry 0 and moves every other entry up
\* by one, dropping the last; so entry i of both registers describes the
\* (i+1)-th most recent update_history call.
C7_HistoryWindow == []HistoryWindow /\ [][HistoryShifts]_vars

\* C7 witness: more than HISTORY_LENGTH calls were made, the registers hold
\* different events at entries 0 and 1.
C7_Witness ==
  /\ Len(history_log) > HISTORY_LENGTH
  /\ global_history[0] # global_history[1]
  /\ path_history[0] # path_history[1]
  /\ path_history[1] # 0

\* ----------------------------------------------------------------- C8

\* 32-bit addresses at the ends and in the middle of the range, aligned and
\* unaligned, with the addresses of the traces
IndexedAddresses ==
  Addresses \cup
  { Word(h, l) : h \in { 0, 1, 32767, 32768, 65535 },
                 l \in { 0, 1, 2, 3, 4, 7, 4095, 4097, 65532, 65535 } }

\* the index of each of these addresses is in the table and depends on
\* address >> 2 only
IndexOfAddresses ==
  /\ \A a \in IndexedAddresses :
       compute_perceptron_index(a) \in 0..(NUM_PERCEPTRONS - 1)
  /\ \A a, b \in IndexedAddresses :
       (WordShr2(a) = WordShr2(b)) =>
         (compute_perceptron_index(a) = compute_perceptron_index(b))

IndexInTable ==
  /\ index \in 0..(NUM_PERCEPTRONS - 1)
  /\ (call.op \in { "make_prediction", "train_perceptron" }) =>
       (index \in DOMAIN perceptron_table)
  /\ IndexOfAddresses

SameSlot ==
  /\ (call'.op = "train_perceptron") => (index' = index)
  /\ (call'.op \in { "make_prediction", "train_perceptron" }) =>
       \A i \in DOMAIN perceptron_table :
         (i # index') => (perceptron_table'[i] = perceptron_table[i])

\* C8: the index of every make_prediction and train_perceptron call is in
\* [0, NUM_PERCEPTRONS); it depends on address >> 2 only; a call touches no
\* slot but the one at its index, and the training of an event uses the
\* index its prediction used.
C8_IndexInTable == []IndexInTable /\ [][SameSlot]_vars

\* C8 witness: the unaligned address 0x39B was predicted and trained in the
\* slot it shares with 0x1000.
C8_Witness ==
  /\ call.op = "train_perceptron"
  /\ call.address = Word(0, 923)
  /\ index = compute_perceptron_index(Word(0, 4096))
  /\ perceptron_table[index].weights[0] # 0

\* ----------------------------------------------------------------- C9

RECURSIVE SpecSum(_, _)
SpecSum(weights, j) ==
  IF j > HISTORY_LENGTH THEN 0
  ELSE (weights[j] * SpecTerm(j)) + SpecSum(weights, j + 1)

OutputOnHit ==
  /\ (/\ call'.op = "make_prediction"
      /\ perceptron_table[index'].tag = WordShr2(call'.address))
     => (y' = SpecSum(perceptron_table[index'].weights, 0))
  /\ (call'.op = "tally") =>
       ((y >= 0) <=> ((actual_outcome = 1) <=>
          (statistics'.correct_predictions
             = statistics.correct_predictions + 1)))

\* C9: on a tag hit make_prediction returns weights[0] + the sum over
\* j = 1..H of weights[j] * (GlobalHistory[j-1] + (PathHistory[j-1] & 1)) of
\* the slot at the hashed index, and the driver counts the event as
\* predicted taken exactly when y >= 0.
C9_PerceptronOutput == [][OutputOnHit]_vars

\* C9 witness: a tag hit returned a y that the history weights decided.
C9_Witness ==
  /\ call.op = "make_prediction"
  /\ perceptron_table[index].times_accessed >= 1
  /\ y > 0
  /\ perceptron_table[index].weights[0] < 0

\* ---------------------------------------------------------------- C10

MissFrame ==
  (/\ call'.op = "make_prediction"
   /\ perceptron_table[index'].tag # WordShr2(call'.address))
  => (/\ statistics' = [statistics EXCEPT !.btb_misses = @ + 1]
      /\ perceptron_table' =
           [perceptron_table EXCEPT
              ![index'].tag = WordShr2(call'.address),
              ![index'].times_accessed = 0]
      /\ UNCHANGED << global_history, path_history, current_time >>)

\* C10: a make_prediction that misses the tag changes btb_misses (+1), the
\* slot's tag (address >> 2) and its times_accessed (0) and nothing else of
\* the predictor: no weight of any slot, neither history register, not the
\* clock, not strong_predictions, weak_predictions or avg_confidence.
C10_MissFrame == [][MissFrame]_vars

\* C10 witness: a miss in a slot that holds the weights a prior owner
\* trained, after a hit has been counted.
C10_Witness ==
  /\ LastWasMiss
  /\ statistics.btb_misses >= 2
  /\ perceptron_table[index].weights[0] # 0
  /\ statistics.weak_predictions >= 1

\* ---------------------------------------------------------------- C11

\* the slot of each address the loop reads
SlotOf == [a \in Addresses |-> compute_perceptron_index(a)]

\* What two predictors have to agree on, and the counts they then agree on.
Weights == [i \in Slots |-> perceptron_table[i].weights]

Tags == [i \in Slots |-> perceptron_table[i].tag]

Counts ==
  [ total_predictions   |-> statistics.total_predictions,
    correct_predictions |-> statistics.correct_predictions,
    mispredictions      |-> statistics.mispredictions,
    btb_misses          |-> statistics.btb_misses,
    training_events     |-> statistics.training_events ]

Clamp(w) ==
  IF w > MAX_WEIGHT THEN MAX_WEIGHT ELSE IF w < MIN_WEIGHT THEN MIN_WEIGHT
  ELSE w

\* Each step's y, weights, tags, history registers and counts as a function
\* of the weights, tags, history registers, counts and y before it and of
\* the record being processed: no bookkeeping-only field is read below.
TelemetryFreeStep ==
  LET a == call'.address
      i == SlotOf[a]
      hit == Tags[i] = WordShr2(a)
      outcome == call'.outcome
      wrong == (call'.y >= 0) # (outcome = 1)
      gate == wrong \/ abs(call'.y) <= THETA
  IN  /\ (call'.op = "fscanf") =>
           UNCHANGED << Weights, Tags, global_history, path_history,
                        Counts, y >>
      /\ (call'.op = "make_prediction") =>
           /\ y' = (IF hit THEN SpecSum(Weights[i], 0) ELSE 0)
           /\ Tags' = [Tags EXCEPT ![i] = WordShr2(a)]
           /\ Counts' = [Counts EXCEPT
                           !.btb_misses = @ + (IF hit THEN 0 ELSE 1)]
           /\ UNCHANGED << Weights, global_history, path_history >>
      /\ (call'.op = "tally") =>
           /\ Counts' =
                [Counts EXCEPT
                   !.total_predictions = @ + 1,
                   !.correct_predictions = @ + (IF wrong THEN 0 ELSE 1),
                   !.mispredictions = @ + (IF wrong THEN 1 ELSE 0)]
           /\ (wrong <=> (pc' = "train_perceptron"))
           /\ UNCHANGED << Weights, Tags, global_history, path_history, y >>
      /\ (call'.op = "train_perceptron") =>
           /\ Weights' =
                (IF gate
                 THEN [Weights EXCEPT
                         ![i] = [j \in 0..HISTORY_LENGTH |->
                                   Clamp(@[j] + (outcome * SpecTerm(j)))]]
                 ELSE Weights)
           /\ Counts' = [Counts EXCEPT
                           !.training_events = @ + (IF gate THEN 1 ELSE 0)]
           /\ UNCHANGED << Tags, global_history, path_history, y >>
      /\ (call'.op = "update_history") =>
           /\ global_history' =
                [k \in 0..(HISTORY_LENGTH - 1) |->
                   IF k = 0 THEN outcome ELSE global_history[k - 1]]
           /\ path_history' =
                [k \in 0..(HISTORY_LENGTH - 1) |->
                   IF k = 0 THEN a.lo % 16 ELSE path_history[k - 1]]
           /\ UNCHANGED << Weights, Tags, Counts, y >>

\* C11: times_accessed, last_update_time, the clock, strong_predictions,
\* weak_predictions and avg_confidence never influence prediction or
\* training.  From predictors that agree on every weight, tag and history
\* register and differ in those fields (the initial states of
\* SpecTelemetry), every step of every event sequence yields a y, a
\* predicted direction, weight and tag updates and correct / misprediction /
\* btb_misses / training_events counts that are one function of the agreed
\* part and the record alone; so the runs from two such predictors on the
\* same records agree on all of them, step after step.
C11_TelemetryIgnored == [][TelemetryFreeStep]_vars

\* C11 witness: a run that started from the differing bookkeeping fields has
\* predicted with a non-zero sum on a tag hit and then trained.
C11_Witness ==
  /\ current_time > 9
  /\ statistics.strong_predictions >= 3
  /\ call.op = "train_perceptron"
  /\ y # 0
  /\ perceptron_table[index].times_accessed > 7

\* ---------------------------------------------------------------- C12

\* C12: after every fully processed event, training_events is at most
\* mispredictions plus the number of processed events whose predicted
\* direction was correct and whose abs(y) was at most THETA.
C12_TrainingBound ==
  (pc = "fscanf") =>
    (statistics.training_events
       <= statistics.mispredictions + observed.low_confidence_correct)

\* C12 witness: after the prefix, events were predicted correctly both with
\* abs(y) <= THETA and with abs(y) > THETA, and a later one was mispredicted
\* and trained.
C12_Witness ==
  /\ pc = "fscanf"
  /\ observed.low_confidence_correct >= 1
  /\ statistics.correct_predictions > observed.low_confidence_correct
  /\ statistics.training_events > 2 * WarmPairs

\* ---------------------------------------------------------------- C13

UpdateRule ==
  LET address == call'.address
      outcome == call'.outcome
      i == SlotOf[address]
      passes == ((call'.y >= 0) # (outcome = 1)) \/ abs(call'.y) <= THETA
  IN  (call'.op = "train_perceptron" /\ passes) =>
        /\ \A j \in 0..HISTORY_LENGTH :
             perceptron_table'[i].weights[j]
               = Clamp(perceptron_table[i].weights[j]
                       + (outcome * SpecTerm(j)))
        /\ \A k \in Slots \ { i } :
             /\ perceptron_table'[k].weights = perceptron_table[k].weights
             /\ perceptron_table'[k].tag = perceptron_table[k].tag
        /\ UNCHANGED << global_history, path_history >>

\* C13: when train_perceptron's gate passes, the slot at
\* compute_perceptron_index(address) gets, for every j in 0..H,
\* weights[j] := clamp(weights[j] + outcome * h_j, -128, 127) with h_0 = 1
\* and h_j = GlobalHistory[j-1] + (PathHistory[j-1] & 1) for j >= 1, and
\* the weights and tags of every other slot and both history registers are
\* unchanged.
C13_UpdateRule == [][UpdateRule]_vars

\* C13 witness: a training call with outcome -1 has moved a saturated slot,
\* the bias by 1 and weight 1 by its history term of 2.
C13_Witness ==
  /\ call.op = "train_perceptron"
  /\ call.outcome = -1
  /\ global_history[0] + (path_history[0] % 2) = 2
  /\ perceptron_table[index].weights[0] = MAX_WEIGHT - 1
  /\ perceptron_table[index].weights[1] = MAX_WEIGHT - 2

\* ---------------------------------------------------------------- C14

\* update_history has run once for each record before the one in hand, and
\* not yet for that one
LogLength ==
  Len(history_log) = (IF pc = "fscanf" THEN events ELSE events - 1)

EventOrder ==
  LET i == SlotOf[call'.address]
  IN  /\ (call'.op = "fscanf") => (call.op \in { "none", "update_history" })
      /\ (call'.op = "make_prediction") => (call.op = "fscanf")
      /\ (call'.op = "tally") => (call.op = "make_prediction")
      /\ (call'.op = "train_perceptron") => (call.op = "tally")
      /\ (call'.op = "update_history") =>
           /\ call.op \in { "tally", "train_perceptron" }
           /\ call'.address = branch_address
           /\ call'.outcome = actual_outcome
           /\ Len(history_log') = Len(history_log) + 1
      /\ (call'.op \in { "make_prediction", "tally", "train_perceptron" }) =>
           UNCHANGED << global_history, path_history, history_log >>
      /\ (call'.op = "train_perceptron") =>
           /\ call'.address = branch_address
           /\ (perceptron_table[i].times_accessed > 0) =>
                (call'.y = SpecSum(perceptron_table[i].weights, 0))
           /\ \A j \in 0..HISTORY_LENGTH :
                perceptron_table'[i].weights[j]
                  = Clamp(perceptron_table[i].weights[j]
                          + (call'.outcome * SpecTerm(j)))

\* C14: within each processed event the order is predict, then
\* (conditionally) train, then update_history.  The registers do not move
\* between the prediction and the training of an event, so the weight update
\* uses exactly the history values its prediction read (on a tag hit the y
\* passed to training is still the sum over the registers training reads),
\* the event's own outcome and address nibble not being in the registers
\* yet; and update_history runs exactly once per event, last, whether the
\* prediction was a tag hit or a miss, correct or not.
C14_EventOrder == []LogLength /\ [][EventOrder]_vars

\* C14 witness: three events are fully processed, among them a tag miss, a
\* tag hit, a correct prediction and a misprediction that trained.
C14_Witness ==
  /\ pc = "fscanf"
  /\ Len(history_log) = 3
  /\ statistics.btb_misses >= 1
  /\ statistics.weak_predictions >= 1
  /\ statistics.correct_predictions >= 1
  /\ statistics.training_events >= 1

\* ---------------------------------------------------------------- C15

TrainedIffMispredicted ==
  (pc = "fscanf") =>
    (statistics.training_events = statistics.mispredictions)

\* weights move only in the train_perceptron step, which the loop takes only
\* for an event whose predicted direction differs from the actual outcome
CorrectLeavesWeights ==
  /\ (Weights' # Weights) => (call'.op = "train_perceptron")
  /\ (call'.op = "train_perceptron") => (prediction # actual_outcome)
  /\ (call'.op = "tally" /\ prediction = actual_outcome) =>
       (pc' = "update_history")

TermInRange ==
  \A j \in 1..HISTORY_LENGTH :
    global_history[j - 1] + BitAnd(path_history[j - 1], 1, 4)
      \in { -1, 0, 1, 2 }

\* C16 as stated: in every reachable state, from initialisation onward,
\* every entry of GlobalHistory is +1 or -1 and every entry of PathHistory
\* is in 0..15, so every history term is in {-1, 0, +1, +2}.  (calloc
\* leaves the entries of global_history 0 until update_history fills them.)
C16_HistoryRanges ==
  /\ \A i \in 0..(HISTORY_LENGTH - 1) :
       /\ global_history[i] \in { 1, -1 }
       /\ path_history[i] \in 0..PATH_HISTORY_MASK
  /\ TermInRange

\* C16 amended: an entry of GlobalHistory is +1 or -1 once update_history
\* has run more often than the entry's index, and is 0, with a PathHistory
\* entry of 0, until then; every PathHistory entry is in 0..15 and every
\* history term is in {-1, 0, +1, +2}.
C16_HistoryRangesOnceFilled ==
  /\ \A i \in 0..(HISTORY_LENGTH - 1) :
       /\ (i < Len(history_log)) => (global_history[i] \in { 1, -1 })
       /\ (i >= Len(history_log)) =>
            (global_history[i] = 0 /\ path_history[i] = 0)
       /\ path_history[i] \in 0..PATH_HISTORY_MASK
  /\ TermInRange

\* C16 witness: both registers are full, with a term of 2 and a term of -1.
C16_Witness ==
  /\ Len(history_log) > HISTORY_LENGTH
  /\ global_history[0] = 1
  /\ path_history[0] = PATH_HISTORY_MASK
  /\ global_history[1] = -1
  /\ path_history[1] = 0

\* ---------------------------------------------------------------- C17

HitsAndMissesBalanced ==
  (pc = "fscanf") =>
    (statistics.btb_misses + statistics.strong_predictions
       + statistics.weak_predictions = statistics.total_predictions)

\* how much a step added to a counter of statistics
Added(counter) == statistics'[counter] - statistics[counter]

OneCounterPerPrediction ==
  LET hit == perceptron_table[SlotOf[call'.address]].tag
               = WordShr2(call'.address)
      moved == << Added("btb_misses"), Added("strong_predictions"),
                  Added("weak_predictions") >>
  IN  IF call'.op = "make_prediction"
      THEN moved = (IF ~hit THEN << 1, 0, 0 >>
                    ELSE IF abs(y') >= THETA THEN << 0, 1, 0 >>
                    ELSE << 0, 0, 1 >>)
      ELSE moved = << 0, 0, 0 >>

\* C17: after every fully processed event btb_misses + strong_predictions +
\* weak_predictions == total_predictions: each event is either a tag miss
\* (of the three only btb_misses incremented) or a tag hit (exactly one of
\* strong_predictions, weak_predictions incremented, strong if and only if
\* abs(y) >= THETA).
C17_HitsAndMisses ==
  []HitsAndMissesBalanced /\ [][OneCounterPerPrediction]_vars

\* C17 witness: after the prefix a strong hit with abs(y) = THETA, a weak
\* hit and a miss have been counted.
C17_Witness ==
  /\ pc = "fscanf"
  /\ abs(y) = THETA
  /\ confidence = Rat(1, 1)
  /\ statistics.strong_predictions >= 1
  /\ statistics.weak_predictions >= 1
  /\ statistics.btb_misses > 2 * WarmPairs

\* ---------------------------------------------------------------- C18

\* t << 2
WordShl2(t) == Word(((t.hi * 4) + (t.lo \div (Half \div 4))) % Half,
                    (t.lo * 4) % Half)

\* compute_perceptron_index(t << 2) for the tag t of each address read
SlotOfTag ==
  [t \in { WordShr2(a) : a \in Addresses } |->
     compute_perceptron_index(WordShl2(t))]

\* the addresses make_prediction was called for, newest first: that of the
\* event in hand once predicted, then those of the events before it
Predicted ==
  (IF pc \in { "tally", "train_perceptron", "update_history" }
   THEN << branch_address >> ELSE << >>)
  \o [k \in 1..Len(history_log) |-> history_log[k].address]

PredictedInto(i) == { k \in 1..Len(Predicted) : SlotOf[Predicted[k]] = i }

\* the most recent address predicted that hashes to slot i (PredictedInto(i)
\* not empty)
LastPredictedInto(i) ==
  Predicted[CHOOSE k \in PredictedInto(i) :
              \A m \in PredictedInto(i) : k <= m]

TagsTrackPredictions ==
  \A i \in Slots :
    LET t == perceptron_table[i].tag
    IN  IF PredictedInto(i) = { }
        THEN t = Word(0, 0)
        ELSE /\ t = WordShr2(LastPredictedInto(i))
             /\ t \in DOMAIN SlotOfTag
             /\ SlotOfTag[t] = i

MissIffTagReplaced ==
  (call'.op = "make_prediction") =>
    LET A == call'.address
        i == SlotOf[A]
        miss == statistics'.btb_misses = statistics.btb_misses + 1
    IN  /\ miss \/ UNCHANGED statistics.btb_misses
        /\ miss <=>
             (IF PredictedInto(i) = { }
              THEN WordShr2(A) # Word(0, 0)
              ELSE WordShr2(LastPredictedInto(i)) # WordShr2(A))
        /\ (Predicted # << >> /\ Predicted[1] = A) => ~miss

\* C18: in every reachable state every slot i of the table has either its
\* initial tag (0) or a tag t with compute_perceptron_index(t << 2) = i,
\* namely address >> 2 of the most recent address predicted that hashes to
\* slot i.  So a prediction for address A is a tag miss if and only if the
\* last prediction into slot index(A) was for an address with a different
\* address >> 2 (or the slot was never predicted and A >> 2 # 0), and of two
\* consecutive predictions for the same address the second is never a miss.
C18_TagsTrackPredictions ==
  []TagsTrackPredictions /\ [][MissIffTagReplaced]_vars

\* C18 witness: 0x1000 and then 0x39B missed in the slot they share, and the
\* next prediction for 0x39B has hit the tag it left.
C18_Witness ==
  /\ call.op = "make_prediction"
  /\ Predicted = << Word(0, 923), Word(0, 923), Word(0, 4096) >>
  /\ statistics.btb_misses = 2
  /\ statistics.weak_predictions = 1
  /\ perceptron_table[index].tag = WordShr2(Word(0, 923))

\* ---------------------------------------------------------------- C19

\* C19: after any sequence of events avg_confidence equals the arithmetic
\* mean of the confidence values abs(y) / THETA of all tag-hit predictions
\* made so far; tag-miss events, which do not update avg_confidence, do not
\* change the weight given to earlier confidences in later updates.
\* (observed.hit_abs_y / THETA is the sum of those confidence values.)
C19_AvgConfidenceIsMean ==
  (pc = "fscanf") =>
    (statistics.avg_confidence.num * (THETA * observed.hits)
       = observed.hit_abs_y * statistics.avg_confidence.den)

=============================================================================
